---- MODULE Spec2Model ----
(***************************************************************************)
(* Block construction of src/util/block_tools.py: BlockTools, its          *)
(* get_consecutive_blocks loop, create_genesis_block, create_next_block    *)
(* and is_transaction_block.                                               *)
(*                                                                         *)
(* The tracker is the BlockTools object (variable self); the other         *)
(* variables are the locals of one call of get_consecutive_blocks and the  *)
(* position pc inside it.  The external collaborators (difficulty          *)
(* adjustment, pot_iterations, the plots) are oracles: every call returns  *)
(* some value of a small set.                                              *)
(*                                                                         *)
(* Spec is the loop of get_consecutive_blocks, in which proof selection    *)
(* and the VDF segments are single steps.  SpecSelect is one call of       *)
(* get_prams_from_plots, attempt by attempt.  SpecVdf applies the four     *)
(* VDF segment functions (get_challenge_chain_icp_vdf and the other        *)
(* three) to a block.                                                      *)
(***************************************************************************)
EXTENDS Integers, Sequences, FiniteSets, TLC

VARIABLES
    self,        \* the BlockTools object: its fields
    pc,          \* position inside get_consecutive_blocks
    block_list,  \* the chain, from the last caller-supplied block on
    difficulty,  \* local difficulty
    next_height, \* loop variable
    end_height,  \* starting_height + num_blocks
    sub_blocks,  \* local sub_blocks dictionary
    block,       \* local block, the result of create_next_block
    new_slot,    \* local new_slot ("unbound" until first assigned)
    calls,       \* invocations of get_next_difficulty / get_next_ips
    cur_slot,    \* history: number of slot crossings completed so far
    slot_of,     \* history: the slot each entry of block_list was built in
    error,       \* the exception that ended the call ("none" while it runs)
    \* one call of get_prams_from_plots
    plots,                \* the sorted plot list
    attempt,              \* loop variable i
    selected_plot_info,   \* local selected_plot_info
    selected_quality,     \* local selected_quality
    first_eligible,       \* history: the plot of the earliest eligible attempt
    prams,                \* what the call returned or raised
    \* the four VDF segment functions applied to one block
    vdf_block,            \* parameter block
    vdf_ips,              \* parameter ips
    vdf_required_iters,   \* parameter required_iters
    vdf_info,             \* the VDFInfo each function returned
    \* one call of create_foliage
    foliage_args,         \* the arguments and the tracker fields it reads
    foliage_result        \* what the call returned or raised

\* the variables of get_consecutive_blocks
loop_vars == <<self, pc, block_list, difficulty, next_height, end_height,
               sub_blocks, block, new_slot, calls, cur_slot, slot_of, error>>

\* the variables of get_prams_from_plots
select_vars == <<plots, attempt, selected_plot_info, selected_quality,
                 first_eligible, prams>>

\* the variables of the VDF segment functions
vdf_vars == <<vdf_block, vdf_ips, vdf_required_iters, vdf_info>>

\* the variables of create_foliage
foliage_vars == <<foliage_args, foliage_result>>

vars == <<loop_vars, select_vars, vdf_vars, foliage_vars>>

None == "None"

----------------------------------------------------------------------------
(* Bounds of the model *)

\* num_blocks of a call that starts from an empty block list
MaxBlocks == 5
\* num_blocks of a call that is given an existing block list
MaxExtend == 2
\* largest iteration count the plots / the slot-iterations oracle return
MaxIters == 3
\* the non-zero infusion (challenge) point iteration count
MaxPointIters == 1
\* largest number of plots get_prams_from_plots is given
MaxPlots == 2
\* largest number of finished slots a block handed to a VDF function carries
MaxSlots == 2

(* Program constants *)

SUB_EPOCH_BLOCKS == 384
EPOCH_BLOCKS == 32256
DEFICIT_START == 5
DIFFICULTY_STARTING == 2
IPS_STARTING == 1
DISCRIMINANT_SIZE_BITS == 1024
FIRST_CC_CHALLENGE == "FIRST_CC_CHALLENGE"
FIRST_RC_CHALLENGE == "FIRST_RC_CHALLENGE"

----------------------------------------------------------------------------
(* Oracles *)

\* calculate_iterations: the number_iters get_prams_from_plots returns
IterVals == {1, MaxIters - 1, MaxIters}

\* get_next_slot_iters
SlotIterVals == {1, MaxIters}

\* the offsets pot_iterations returns for an infusion (challenge) point
PointIterVals == {0, MaxPointIters}

\* A quality, described by what pot_iterations derives from it under the
\* difficulty and ips of the run: calculate_infusion_challenge_point_iters,
\* calculate_infusion_point_iters and is_overflow_sub_block of
\* calculate_iterations_quality(quality, size, difficulty).  The infusion
\* challenge point of a sub-block comes after its infusion point exactly when
\* it lies in the previous slot, which is what makes an overflow sub-block.
Qualities ==
    {q \in [icp_iters : PointIterVals, ip_iters : PointIterVals,
            overflow : BOOLEAN] :
        q.overflow <=> q.icp_iters > q.ip_iters}

\* the pool public keys a plot may carry; the keychain of the BlockTools
\* object holds the secret keys of OwnPoolKeys
PoolKeys == {"pool_pk", "foreign_pool_pk"}
OwnPoolKeys == {"pool_pk"}

\* get_next_difficulty, get_next_ips
DifficultyVals == {DIFFICULTY_STARTING, DIFFICULTY_STARTING + 1}
IpsVals == {IPS_STARTING, IPS_STARTING + 1}

\* lengths of the block lists a caller may pass in
ExistingLens ==
    {SUB_EPOCH_BLOCKS, 2 * SUB_EPOCH_BLOCKS, EPOCH_BLOCKS, 2 * EPOCH_BLOCKS}

----------------------------------------------------------------------------
(* Helpers *)

Last(s) == s[Len(s)]

\* An Optional value is a sequence of length 0 (None) or 1.

\* d[k] = v of a Python dictionary
Put(d, k, v) == [x \in (DOMAIN d) \cup {k} |-> IF x = k THEN v ELSE d[x]]

EmptyDict == [x \in {} |-> None]

\* FullBlock.get_hash: a block is identified by its height
get_hash(b) == b.height

\* FullBlock.get_sub_block_record
get_sub_block_record(b) == [height |-> b.height, weight |-> b.weight]

\* The tuple appended on a slot crossing
FinishedSlotTuple ==
    <<"ChallengeSlot", "RewardChainEndOfSlot", "EndOfSlotProofs">>

----------------------------------------------------------------------------
(* BlockTools.__init__ *)

InitSelf ==
    [ curr_slot          |-> 1,
      curr_epoch         |-> 1,
      curr_sub_epoch     |-> 1,
      sub_blocks         |-> EmptyDict,
      height_to_hash     |-> EmptyDict,
      finished_slots     |-> <<>>,
      ips                |-> 0,
      deficit            |-> 0,
      number_iters       |-> 0,
      quality            |-> [icp_iters |-> 0, ip_iters |-> 0,
                                 overflow |-> FALSE],
      slot_iters         |-> 0,
      proof_of_space     |-> [pool_public_key |-> None],
      all_sks            |-> OwnPoolKeys,
      challenge_chain_head |-> <<>>,
      prev_foliage_block |-> <<>>,
      farmer_ph          |-> "farmer_ph",
      pool_ph            |-> "pool_ph",
      tx_height          |-> <<>> ]

\* no call of get_prams_from_plots is modelled step by step
IdleSelect ==
    /\ plots = <<>>
    /\ attempt = 0
    /\ selected_plot_info = <<>>
    /\ selected_quality = <<>>
    /\ first_eligible = <<>>
    /\ prams = <<>>

\* no VDF segment function is applied
IdleVdf ==
    /\ vdf_block = <<>>
    /\ vdf_ips = 0
    /\ vdf_required_iters = 0
    /\ vdf_info = <<>>

\* create_foliage is not applied on its own
IdleFoliage ==
    /\ foliage_args = <<>>
    /\ foliage_result = <<>>

\* get_consecutive_blocks has not been called
NoCallYet ==
    /\ pc = "idle"
    /\ block_list = <<>>
    /\ difficulty = 0
    /\ next_height = 0
    /\ end_height = 0
    /\ sub_blocks = EmptyDict
    /\ block = <<>>
    /\ new_slot = "unbound"
    /\ calls = [difficulty |-> 0, ips |-> 0]
    /\ cur_slot = 0
    /\ slot_of = <<>>
    /\ error = "none"

\* The tracker a call of get_consecutive_blocks finds.  quality and
\* proof_of_space, which __init__ leaves without a usable value, are what an
\* earlier proof selection left in them.
InitLoop ==
    /\ \E q \in Qualities, k \in PoolKeys :
         self = [InitSelf EXCEPT !.quality = q,
                                 !.proof_of_space = [pool_public_key |-> k]]
    /\ NoCallYet

Init == InitLoop /\ IdleSelect /\ IdleVdf /\ IdleFoliage

----------------------------------------------------------------------------
(* The conditions and computations of the code *)

\* util.ints.uint128: the conversion rejects a negative value (the upper end
\* of the range, 2^128, is far above every iteration count of the model)
uint128_ok(v) == v >= 0

\* is_transaction_block: the value converted to uint128
our_icp_total_iters(overflow, total_iters, ip_iters, icp_iters, slot_iters) ==
    IF overflow
    THEN total_iters - ip_iters + icp_iters - slot_iters
    ELSE total_iters - ip_iters + icp_iters

\* is_transaction_block: the comparison it returns
is_transaction_block(overflow, total_iters, ip_iters, icp_iters, slot_iters, curr_total_iters) ==
    our_icp_total_iters(overflow, total_iters, ip_iters, icp_iters, slot_iters)
        > curr_total_iters

\* the slot check with the boundary included
is_new_slot_inclusive(number_iters, slot_iters) == number_iters >= slot_iters

\* get_consecutive_blocks: "check is new slot"
is_new_slot(number_iters, slot_iters) == number_iters > slot_iters

\* get_consecutive_blocks: the finished-slot buffer after "todo handle
\* multiple slots between blocks"
cleared_finished_slots(buffer) == <<>>

\* the two boundary checks as thresholds
is_end_of_epoch_threshold(n_sub_blocks, curr_sub_epoch, curr_epoch) ==
    /\ n_sub_blocks <= SUB_EPOCH_BLOCKS * (curr_sub_epoch + 1)
    /\ n_sub_blocks <= EPOCH_BLOCKS * (curr_epoch + 1)

\* get_consecutive_blocks: "is end of sub_epoch" and, nested, "is end of epoch"
is_end_of_epoch(n_sub_blocks, curr_sub_epoch, curr_epoch) ==
    /\ n_sub_blocks = SUB_EPOCH_BLOCKS * (curr_sub_epoch + 1)
    /\ n_sub_blocks = EPOCH_BLOCKS * (curr_epoch + 1)

\* the decrement without its guard
track_deficit_unguarded(deficit) == deficit - 1

\* get_consecutive_blocks: "keep track of deficit"
track_deficit(deficit) == IF deficit > 0 THEN deficit - 1 ELSE deficit

\* the gate off by one
omits_challenge_proof_off_by_one(deficit) == deficit > 1

\* create_next_block: "dont create challenge block"
omits_challenge_proof(deficit) == deficit > 0

\* the weight carried over without the difficulty
next_weight_carried(previous_weight, diff) == previous_weight

\* create_next_block: the weight of the RewardChainSubBlock
next_weight(previous_weight, diff) == previous_weight + diff

\* an exception swallowed inside the loop, the step being run again
after_raise_retried == "loop"

\* get_consecutive_blocks: no statement of the loop catches an exception, so
\* one raised in it ends the call
after_raise == "failed"

\* get_pool_key_signature: the signature of the first secret key whose pool
\* key is pool_pk, None when there is no such key
get_pool_key_signature(all_sks, pool_target, pool_pk) ==
    IF pool_pk \in all_sks
    THEN <<[signed |-> pool_target, by |-> pool_pk]>>
    ELSE <<>>

\* the assertion dropped
pool_signature_unchecked(pool_target_signature) == TRUE

\* create_foliage: assert pool_target_signature is not None
pool_signature_ok(pool_target_signature) == pool_target_signature # <<>>

\* get_consecutive_blocks: the deficit after "check if challenge chain block"
accepted_deficit(challenge_chain_ip_proof, deficit) ==
    IF challenge_chain_ip_proof # <<>> THEN DEFICIT_START ELSE deficit

\* chiavdf prove(challenge_hash, a, b, discriminant_size_bits,
\* num_iterations): the invocation of the VDF oracle, kept as its arguments
prove(challenge_hash, a, b, discriminant_size_bits, num_iterations) ==
    [ challenge_hash         |-> challenge_hash,
      a                      |-> a,
      b                      |-> b,
      discriminant_size_bits |-> discriminant_size_bits,
      num_iterations         |-> num_iterations ]

\* get_vdf_proof: the VDFProof made from what prove returns
get_vdf_proof(challenge_hash, a, b, number_iters, discriminant_size_bits) ==
    [ witness_type |-> 1,
      witness      |-> prove(challenge_hash, a, b, discriminant_size_bits,
                             number_iters) ]

\* the genesis weight left at zero
genesis_weight_unset == DIFFICULTY_STARTING - DIFFICULTY_STARTING

\* create_genesis_block: the weight of the genesis RewardChainSubBlock
genesis_weight == DIFFICULTY_STARTING

\* create_next_block with a side effect on the deficit
set_prev_foliage_block_resetting(tracker, foliage_block) ==
    [tracker EXCEPT !.prev_foliage_block = foliage_block,
                    !.deficit = DEFICIT_START]

\* create_next_block: self.prev_foliage_block = foliage_block, the only
\* assignment to a field of self in create_next_block and create_foliage
set_prev_foliage_block(tracker, foliage_block) ==
    [tracker EXCEPT !.prev_foliage_block = foliage_block]

----------------------------------------------------------------------------
(* get_consecutive_blocks, called with an empty block list: the genesis   *)
(* block of create_genesis_block is appended and the loop is entered.     *)

genesis_block(number_iters) ==
    [ height                   |-> 0,
      weight                   |-> genesis_weight,
      total_iters              |-> number_iters,
      challenge_chain_icp_proof |->
          <<get_vdf_proof(FIRST_CC_CHALLENGE, "1", "2", number_iters,
                          DISCRIMINANT_SIZE_BITS)>>,
      challenge_chain_ip_proof |->
          <<get_vdf_proof(FIRST_CC_CHALLENGE, "1", "2", number_iters,
                          DISCRIMINANT_SIZE_BITS)>>,
      reward_chain_icp_proof   |->
          <<get_vdf_proof(FIRST_RC_CHALLENGE, "1", "2",
                          DISCRIMINANT_SIZE_BITS, number_iters)>>,
      reward_chain_ip_proof    |->
          <<get_vdf_proof(FIRST_RC_CHALLENGE, "1", "2",
                          DISCRIMINANT_SIZE_BITS, number_iters)>>,
      finished_slots           |-> <<>>,
      foliage_sub_block        |-> <<>>,
      foliage_block            |-> <<>>,
      transactions_info        |-> <<>>,
      transactions_generator   |-> <<>>,
      is_transaction_block     |-> FALSE ]

CallGenesis ==
    /\ pc = "idle"
    /\ \E n \in IterVals, q \in Qualities, k \in PoolKeys :
         LET genesis == genesis_block(self.number_iters) IN
         /\ self' = [self EXCEPT !.number_iters = n,
                                 !.quality = q,
                                 !.proof_of_space = [pool_public_key |-> k],
                                 !.challenge_chain_head = <<get_hash(genesis)>>,
                                 !.ips = IPS_STARTING,
                                 !.deficit = DEFICIT_START,
                                 !.prev_foliage_block = genesis.foliage_block]
         /\ block_list' = <<genesis, genesis>>
         /\ slot_of' = <<0, 0>>
         /\ next_height' = genesis.height + 1
         /\ end_height' = genesis.height + 1 + MaxBlocks
    /\ difficulty' = DIFFICULTY_STARTING
    /\ pc' = "loop"
    /\ UNCHANGED <<error, sub_blocks, block, new_slot, calls, cur_slot>>
    /\ UNCHANGED <<select_vars, vdf_vars, foliage_vars>>

\* get_prams_from_plots finds no proof for the genesis challenge
CallGenesisNoProof ==
    /\ pc = "idle"
    /\ pc' = after_raise
    /\ error' = "AssertionError: selected_plot_info is not None"
    /\ UNCHANGED <<self, block_list, difficulty, next_height, end_height,
                   sub_blocks, block, new_slot, calls, cur_slot, slot_of>>
    /\ UNCHANGED <<select_vars, vdf_vars, foliage_vars>>

(* get_consecutive_blocks, called with an existing block list of length   *)
(* len: only its last block is read.                                      *)

existing_block(len, total_iters, is_tx) ==
    [ height                   |-> len - 1,
      weight                   |-> DIFFICULTY_STARTING * len,
      total_iters              |-> total_iters,
      challenge_chain_icp_proof |-> <<>>,
      challenge_chain_ip_proof |-> <<>>,
      reward_chain_icp_proof   |-> <<>>,
      reward_chain_ip_proof    |-> <<>>,
      finished_slots           |-> <<>>,
      foliage_sub_block        |-> <<>>,
      foliage_block            |-> <<>>,
      transactions_info        |-> <<>>,
      transactions_generator   |-> <<>>,
      is_transaction_block     |-> is_tx ]

CallExisting ==
    /\ pc = "idle"
    /\ \E len \in ExistingLens, t \in IterVals, tx \in BOOLEAN :
         LET last == existing_block(len, t, tx) IN
         /\ block_list' = <<last>>
         /\ next_height' = last.height + 1
         /\ end_height' = last.height + 1 + MaxExtend
    /\ slot_of' = <<0>>
    /\ difficulty' = DIFFICULTY_STARTING
    /\ pc' = "loop"
    /\ UNCHANGED <<error, self, sub_blocks, block, new_slot, calls, cur_slot>>
    /\ UNCHANGED <<select_vars, vdf_vars, foliage_vars>>

----------------------------------------------------------------------------
(* One iteration of the loop of get_consecutive_blocks *)

\* "update values"
UpdateValues ==
    /\ pc = "loop"
    /\ next_height < end_height
    /\ LET prev_block == Last(block_list) IN
       /\ sub_blocks' = Put(sub_blocks, get_hash(prev_block),
                            get_sub_block_record(prev_block))
       /\ \E si \in SlotIterVals :
            self' = [self EXCEPT
                       !.height_to_hash = Put(self.height_to_hash,
                                              prev_block.height,
                                              <<get_hash(prev_block)>>),
                       !.slot_iters = si]
    /\ pc' = "check_slot"
    /\ UNCHANGED <<error, block_list, difficulty, next_height, end_height, block,
                   new_slot, calls, cur_slot, slot_of>>
    /\ UNCHANGED <<select_vars, vdf_vars, foliage_vars>>

\* "check is new slot": the tuple is appended to the buffer
AppendFinishedSlot ==
    /\ pc = "check_slot"
    /\ is_new_slot(self.number_iters, self.slot_iters)
    /\ new_slot' = "True"
    /\ self' = [self EXCEPT !.finished_slots =
                                Append(self.finished_slots, FinishedSlotTuple)]
    /\ pc' = "select_proof"
    /\ UNCHANGED <<error, block_list, difficulty, next_height, end_height, sub_blocks,
                   block, calls, cur_slot, slot_of>>
    /\ UNCHANGED <<select_vars, vdf_vars, foliage_vars>>

\* no new slot
SameSlot ==
    /\ pc = "check_slot"
    /\ ~ is_new_slot(self.number_iters, self.slot_iters)
    /\ pc' = "check_epoch"
    /\ UNCHANGED <<error, self, block_list, difficulty, next_height, end_height,
                   sub_blocks, block, new_slot, calls, cur_slot, slot_of>>
    /\ UNCHANGED <<select_vars, vdf_vars, foliage_vars>>

\* get_prams_from_plots for the new slot
SelectProof ==
    /\ pc = "select_proof"
    /\ \E n \in IterVals, q \in Qualities, k \in PoolKeys :
         self' = [self EXCEPT !.number_iters = n, !.quality = q,
                              !.proof_of_space = [pool_public_key |-> k]]
    /\ pc' = "clear_slots"
    /\ UNCHANGED <<error, block_list, difficulty, next_height, end_height, sub_blocks,
                   block, new_slot, calls, cur_slot, slot_of>>
    /\ UNCHANGED <<select_vars, vdf_vars, foliage_vars>>

\* get_prams_from_plots finds no proof for the new slot
SelectProofFails ==
    /\ pc = "select_proof"
    /\ pc' = after_raise
    /\ error' = "AssertionError: selected_plot_info is not None"
    /\ UNCHANGED <<self, block_list, difficulty, next_height, end_height,
                   sub_blocks, block, new_slot, calls, cur_slot, slot_of>>
    /\ UNCHANGED <<select_vars, vdf_vars, foliage_vars>>

\* "todo handle multiple slots between blocks": the buffer is reset
ClearFinishedSlots ==
    /\ pc = "clear_slots"
    /\ self' = [self EXCEPT !.finished_slots =
                                cleared_finished_slots(self.finished_slots)]
    /\ cur_slot' = cur_slot + 1
    /\ pc' = "check_epoch"
    /\ UNCHANGED <<error, block_list, difficulty, next_height, end_height, sub_blocks,
                   block, new_slot, calls, slot_of>>
    /\ UNCHANGED <<select_vars, vdf_vars, foliage_vars>>

\* "is end of sub_epoch" / "is end of epoch"
CheckEpoch ==
    /\ pc = "check_epoch"
    /\ IF is_end_of_epoch(Cardinality(DOMAIN self.sub_blocks),
                          self.curr_sub_epoch, self.curr_epoch)
       THEN IF new_slot = "unbound"
            THEN /\ pc' = after_raise
                 /\ error' = "UnboundLocalError: new_slot"
                 /\ UNCHANGED <<self, difficulty, calls>>
            ELSE /\ \E d \in DifficultyVals, i \in IpsVals :
                      /\ difficulty' = d
                      /\ self' = [self EXCEPT !.ips = i]
                 /\ calls' = [difficulty |-> calls.difficulty + 1,
                              ips |-> calls.ips + 1]
                 /\ pc' = "track_deficit"
                 /\ error' = error
       ELSE /\ pc' = "track_deficit"
            /\ UNCHANGED <<self, difficulty, calls, error>>
    /\ UNCHANGED <<block_list, next_height, end_height, sub_blocks, block,
                   new_slot, cur_slot, slot_of>>
    /\ UNCHANGED <<select_vars, vdf_vars, foliage_vars>>

\* "keep track of deficit"
TrackDeficit ==
    /\ pc = "track_deficit"
    /\ self' = [self EXCEPT !.deficit = track_deficit(self.deficit)]
    /\ pc' = "create"
    /\ UNCHANGED <<error, block_list, difficulty, next_height, end_height, sub_blocks,
                   block, new_slot, calls, cur_slot, slot_of>>
    /\ UNCHANGED <<select_vars, vdf_vars, foliage_vars>>

----------------------------------------------------------------------------
(* create_foliage *)

\* transactions.get_tree_hash() if transactions is not None, else 32 zero
\* bytes
generator_hash(transactions) ==
    [ type  |-> "bytes32",
      value |-> IF transactions # <<>> THEN "tree_hash" ELSE "zero" ]

\* TransactionsInfo(generator_hash, final_aggsig, fees, cost,
\* reward_claims_incorporated)
TransactionsInfo(gen_hash, final_aggsig) ==
    [ type                       |-> "TransactionsInfo",
      generator_hash             |-> gen_hash,
      aggregated_signature       |-> final_aggsig,
      fees                       |-> "fees",
      cost                       |-> 0,
      reward_claims_incorporated |-> "block_rewards" ]

\* block_rewards.calculate_base_farmer_reward(height) + fees
fee_reward_of(height) == [base_farmer_reward_at |-> height, fees |-> "fees"]

\* coinbase.create_pool_coin(height, puzzle_hash, reward): the coin is keyed
\* by the height it is given
create_pool_coin(height, puzzle_hash, reward) ==
    [ parent      |-> [kind |-> "pool", height |-> height],
      puzzle_hash |-> puzzle_hash,
      amount      |-> reward ]

\* coinbase.create_farmer_coin(height, puzzle_hash, reward)
create_farmer_coin(height, puzzle_hash, reward) ==
    [ parent      |-> [kind |-> "farmer", height |-> height],
      puzzle_hash |-> puzzle_hash,
      amount      |-> reward ]

\* PoolTarget(puzzle_hash, max_height)
PoolTarget(puzzle_hash, max_height) ==
    [puzzle_hash |-> puzzle_hash, max_height |-> max_height]

\* prev_foliage_block.get_hash(): a foliage block is identified by its
\* content; there is nothing to hash when prev_foliage_block is None
foliage_block_hash(prev_foliage_block) == prev_foliage_block

\* The tuple create_foliage returns: foliage_sub_block, foliage_block,
\* generator_hash, transactions.  tracker is the BlockTools object (self).
\* The FoliageBlock is built on every call; only its transactions_info_hash
\* depends on is_transaction.  A puzzle hash is an Optional value.
create_foliage(tracker, height, transactions, prev_foliage_block, reward_block_hash, is_block, prev_block_hash, is_transaction, reward_puzzlehash) ==
    LET fee_reward == fee_reward_of(height)
        farmer_ph == IF reward_puzzlehash # <<>>
                     THEN reward_puzzlehash ELSE <<tracker.farmer_ph>>
        pool_ph == IF reward_puzzlehash # <<>>
                   THEN reward_puzzlehash ELSE <<tracker.pool_ph>>
        pool_coin == create_pool_coin(height, reward_puzzlehash, fee_reward)
        farmer_coin == create_farmer_coin(height, reward_puzzlehash, fee_reward)
        additions_root ==
            [ tx_additions |-> transactions # <<>>,
              reward_coins |-> {pool_coin, farmer_coin} ]
        pool_target == PoolTarget(pool_ph, height)
        pool_target_signature ==
            get_pool_key_signature(tracker.all_sks, pool_target,
                                   tracker.proof_of_space.pool_public_key)
        final_aggsig == pool_target_signature
        foliage_sub_block_data ==
            [ pool_target                |-> pool_target,
              pool_target_signature      |-> pool_target_signature,
              farmer_reward_puzzle_hash  |-> farmer_ph,
              prev_foliage_block_hash    |->
                  foliage_block_hash(prev_foliage_block) ]
        foliage_sub_block ==
            [ prev_foliage_block_hash |->
                  foliage_block_hash(prev_foliage_block),
              reward_block_hash       |-> reward_block_hash,
              is_block                |-> is_block,
              foliage_sub_block_data  |-> foliage_sub_block_data ]
        transactions_info_hash ==
            IF is_transaction
            THEN <<TransactionsInfo(generator_hash(transactions), final_aggsig)>>
            ELSE <<>>
        foliage_block ==
            [ prev_block_hash        |-> prev_block_hash,
              additions_root         |-> additions_root,
              transactions_info_hash |-> transactions_info_hash ]
    IN  <<foliage_sub_block, foliage_block, generator_hash(transactions),
          transactions>>

----------------------------------------------------------------------------
(* create_next_block, with its call of create_foliage *)

icp_total_of_next ==
    our_icp_total_iters(self.quality.overflow, self.number_iters,
                        self.quality.ip_iters, self.quality.icp_iters,
                        self.slot_iters)

\* transaction_data_at_height is left at its default, the empty dictionary:
\* no block is given transactions
transactions_of_next == <<>>

\* reward_puzzlehash is left at its default, None
reward_puzzlehash_of_call == <<>>

\* is_transaction_block(overflow, self.number_iters, ...) of the next block
is_transaction_of_next ==
    is_transaction_block(
        self.quality.overflow, self.number_iters,
        self.quality.ip_iters, self.quality.icp_iters,
        self.slot_iters, Last(block_list).total_iters)

\* create_next_block: the call self.create_foliage(self.tx_height, ...)
foliage_of_next ==
    create_foliage(self, self.tx_height, transactions_of_next,
                   self.prev_foliage_block, get_hash(Last(block_list)),
                   ~ omits_challenge_proof(self.deficit),
                   self.challenge_chain_head, is_transaction_of_next,
                   reward_puzzlehash_of_call)

\* create_foliage: the pool target signature of the proof of space in use
pool_target_signature_of_next ==
    foliage_of_next[1].foliage_sub_block_data.pool_target_signature

full_block ==
    LET head == Last(block_list)
        foliage_sub_block == foliage_of_next[1]
        foliage_block == foliage_of_next[2]
        transactions_info == foliage_of_next[3]
        transactions_generator == foliage_of_next[4]
    IN  [ height                   |-> next_height,
          weight                   |-> next_weight(head.weight, difficulty),
          total_iters              |-> self.number_iters,
          challenge_chain_icp_proof |-> <<>>,
          challenge_chain_ip_proof |->
              IF omits_challenge_proof(self.deficit)
              THEN <<>>
              ELSE <<get_vdf_proof("std_hash(end_of_slot)",
                                   "challenge_chain_ip_vdf.output.a",
                                   "challenge_chain_ip_vdf.output.b",
                                   DISCRIMINANT_SIZE_BITS,
                                   self.number_iters)>>,
          reward_chain_icp_proof   |->
              <<get_vdf_proof("std_hash(end_of_slot)", "1", "2",
                              DISCRIMINANT_SIZE_BITS, self.number_iters)>>,
          reward_chain_ip_proof    |->
              <<get_vdf_proof("std_hash(end_of_slot)", "1", "2",
                              DISCRIMINANT_SIZE_BITS, self.number_iters)>>,
          finished_slots           |-> self.finished_slots,
          foliage_sub_block        |-> <<foliage_sub_block>>,
          foliage_block            |-> <<foliage_block>>,
          transactions_info        |-> <<transactions_info>>,
          transactions_generator   |-> transactions_generator,
          is_transaction_block     |-> is_transaction_of_next ]

CreateNextBlock ==
    /\ pc = "create"
    /\ uint128_ok(icp_total_of_next)
    /\ pool_signature_ok(pool_target_signature_of_next)
    /\ block' = <<full_block>>
    /\ self' = set_prev_foliage_block(self, full_block.foliage_block)
    /\ pc' = "accept"
    /\ UNCHANGED <<error, block_list, difficulty, next_height, end_height, sub_blocks,
                   new_slot, calls, cur_slot, slot_of>>
    /\ UNCHANGED <<select_vars, vdf_vars, foliage_vars>>

\* the uint128 conversion of is_transaction_block raises
CreateNextBlockFails ==
    /\ pc = "create"
    /\ ~ uint128_ok(icp_total_of_next)
    /\ pc' = after_raise
    /\ error' = "ValueError: uint128"
    /\ UNCHANGED <<self, block_list, difficulty, next_height, end_height,
                   sub_blocks, block, new_slot, calls, cur_slot, slot_of>>
    /\ UNCHANGED <<select_vars, vdf_vars, foliage_vars>>

\* create_foliage: the assertion on the pool target signature fails
CreateFoliageFails ==
    /\ pc = "create"
    /\ uint128_ok(icp_total_of_next)
    /\ ~ pool_signature_ok(pool_target_signature_of_next)
    /\ pc' = after_raise
    /\ error' = "AssertionError: pool_target_signature is not None"
    /\ UNCHANGED <<self, block_list, difficulty, next_height, end_height,
                   sub_blocks, block, new_slot, calls, cur_slot, slot_of>>
    /\ UNCHANGED <<select_vars, vdf_vars, foliage_vars>>

\* "check if challenge chain block", block_list.append(block)
AcceptBlock ==
    /\ pc = "accept"
    /\ LET b == block[1] IN
       /\ self' = [self EXCEPT
                     !.deficit = accepted_deficit(b.challenge_chain_ip_proof,
                                                  self.deficit),
                     !.challenge_chain_head =
                         IF b.challenge_chain_ip_proof # <<>>
                         THEN <<get_hash(b)>> ELSE self.challenge_chain_head]
       /\ sub_blocks' = IF b.challenge_chain_ip_proof # <<>>
                        THEN EmptyDict ELSE sub_blocks
       /\ block_list' = Append(block_list, b)
    /\ slot_of' = Append(slot_of, cur_slot)
    /\ next_height' = next_height + 1
    /\ pc' = "loop"
    /\ UNCHANGED <<error, difficulty, end_height, block, new_slot, calls, cur_slot>>
    /\ UNCHANGED <<select_vars, vdf_vars, foliage_vars>>

\* return block_list
Return ==
    /\ pc = "loop"
    /\ next_height >= end_height
    /\ pc' = "done"
    /\ UNCHANGED <<error, self, block_list, difficulty, next_height, end_height,
                   sub_blocks, block, new_slot, calls, cur_slot, slot_of>>
    /\ UNCHANGED <<select_vars, vdf_vars, foliage_vars>>

Next ==
    \/ CallGenesis
    \/ CallGenesisNoProof
    \/ CallExisting
    \/ UpdateValues
    \/ AppendFinishedSlot
    \/ SameSlot
    \/ SelectProof
    \/ SelectProofFails
    \/ ClearFinishedSlots
    \/ CheckEpoch
    \/ TrackDeficit
    \/ CreateNextBlock
    \/ CreateNextBlockFails
    \/ CreateFoliageFails
    \/ AcceptBlock
    \/ Return

Spec == Init /\ [][Next]_vars

----------------------------------------------------------------------------
(* get_prams_from_plots, step by step, as create_genesis_block calls it   *)
(* for a call of get_consecutive_blocks with an empty block list.         *)

\* A plot, by what the loop asks of it: ProofOfSpace.can_create_proof of its
\* id and whether prover.get_qualities_for_challenge returns any quality
PlotInfo == [ccp : BOOLEAN, has_quality : BOOLEAN]

\* prover.get_qualities_for_challenge of the plot at position pn
get_qualities_for_challenge(plot_list, pn) ==
    IF plot_list[pn].has_quality THEN <<[quality_of |-> pn]>> ELSE <<>>

\* the attempt passes the can_create_proof filter and has a quality
eligible(plot_list, pn) ==
    /\ plot_list[pn].ccp
    /\ Len(get_qualities_for_challenge(plot_list, pn)) > 0

\* the check skipped
no_proof_ignored(plot_info, quality) == FALSE

\* get_prams_from_plots: the assertion on selected_plot_info and the test
\* of selected_quality that follow the loop
no_proof_available(plot_info, quality) == plot_info = <<>> \/ quality = <<>>

InitSelect ==
    /\ self = InitSelf
    /\ NoCallYet
    /\ IdleVdf
    /\ IdleFoliage
    /\ \E n \in 0 .. MaxPlots : plots \in [1 .. n -> PlotInfo]
    /\ attempt = 0
    /\ selected_plot_info = <<>>
    /\ selected_quality = <<>>
    /\ first_eligible = <<>>
    /\ prams = <<>>

\* one iteration of "for i in range(len(plots) * 3)": the loop has no break,
\* every eligible attempt overwrites the selection
AttemptPlot ==
    /\ error = "none"
    /\ prams = <<>>
    /\ attempt < 3 * Len(plots)
    /\ \E seeded_pn \in 1 .. Len(plots) :
         IF eligible(plots, seeded_pn)
         THEN /\ selected_plot_info' = <<seeded_pn>>
              /\ selected_quality' =
                     <<get_qualities_for_challenge(plots, seeded_pn)[1]>>
              /\ first_eligible' = IF first_eligible = <<>>
                                   THEN <<seeded_pn>> ELSE first_eligible
         ELSE UNCHANGED <<selected_plot_info, selected_quality,
                          first_eligible>>
    /\ attempt' = attempt + 1
    /\ UNCHANGED <<plots, prams, loop_vars, vdf_vars, foliage_vars>>

\* the loop is over without a selection: the assertion fails (were
\* selected_plot_info set without a quality, the RuntimeError would be
\* raised), and the exception leaves create_genesis_block and
\* get_consecutive_blocks
SelectionRaises ==
    /\ error = "none"
    /\ prams = <<>>
    /\ attempt = 3 * Len(plots)
    /\ no_proof_available(selected_plot_info, selected_quality)
    /\ error' = IF selected_plot_info = <<>>
                THEN "AssertionError: selected_plot_info is not None"
                ELSE "RuntimeError: No proofs for this challenge"
    /\ pc' = after_raise
    /\ UNCHANGED <<self, block_list, difficulty, next_height, end_height,
                   sub_blocks, block, new_slot, calls, cur_slot, slot_of>>
    /\ UNCHANGED <<select_vars, vdf_vars, foliage_vars>>

\* return number_iters, proof_of_space, selected_quality, plot_pk: the proof
\* of space and the plot key are those of selected_plot_info
ReturnPrams ==
    /\ error = "none"
    /\ prams = <<>>
    /\ attempt = 3 * Len(plots)
    /\ ~ no_proof_available(selected_plot_info, selected_quality)
    /\ prams' = <<[plot_info |-> selected_plot_info,
                   quality   |-> selected_quality]>>
    /\ UNCHANGED <<plots, attempt, selected_plot_info, selected_quality,
                   first_eligible, loop_vars, vdf_vars,
                   foliage_vars>>

NextSelect ==
    \/ AttemptPlot
    \/ SelectionRaises
    \/ ReturnPrams

SpecSelect == InitSelect /\ [][NextSelect]_vars

----------------------------------------------------------------------------
(* The four VDF segment functions, applied to a block.                    *)


Segments ==
    {"challenge_chain_icp_vdf", "challenge_chain_ip_vdf",
     "reward_chain_icp_vdf", "reward_chain_ip_vdf"}

\* pot_iterations.calculate_infusion_point_iters
calculate_infusion_point_iters(ips, required_iters) ==
    [transform |-> "infusion_point", ips |-> ips,
     required_iters |-> required_iters]

\* pot_iterations.calculate_infusion_challenge_point_iters
calculate_infusion_challenge_point_iters(ips, required_iters) ==
    [transform |-> "infusion_challenge_point", ips |-> ips,
     required_iters |-> required_iters]

\* the challenge slots finished slots are made of, and their tuples
ChallengeSlots == {"challenge_slot_a", "challenge_slot_b"}

FinishedSlotsOf(n) ==
    [1 .. n -> {<<cs, "RewardChainEndOfSlot", "EndOfSlotProofs">> :
                   cs \in ChallengeSlots}]

\* ChallengeSlot.get_hash: a challenge slot is identified by its name
challenge_slot_hash(cs) == cs

\* The blocks the functions are applied to.  The reward chain sub-block of a
\* block built under deficit > 0 has None for its two challenge chain VDFs.
VdfBlocks ==
    {[finished_slots |-> fs,
      reward_chain_sub_block |->
          [challenge_chain_icp_vdf |->
               IF cc THEN <<[output |-> "challenge_chain_icp_vdf.output"]>>
               ELSE <<>>,
           challenge_chain_ip_vdf |->
               IF cc THEN <<[output |-> "challenge_chain_ip_vdf.output"]>>
               ELSE <<>>,
           reward_chain_icp_vdf |->
               <<[output |-> "reward_chain_icp_vdf.output"]>>,
           reward_chain_ip_vdf |->
               <<[output |-> "reward_chain_ip_vdf.output"]>>]] :
        fs \in UNION {FinishedSlotsOf(n) : n \in 0 .. MaxSlots},
        cc \in BOOLEAN}

\* VDFInfo(challenge_hash, number_of_iterations, output)
VDFInfo(challenge_hash, number_of_iterations, output) ==
    [challenge_hash |-> challenge_hash,
     number_of_iterations |-> number_of_iterations,
     output |-> output]

\* what a call came to: the VDFInfo returned or the exception raised
Returned(info) == [raised |-> "none", info |-> <<info>>]
Raised(exception) == [raised |-> exception, info |-> <<>>]

\* The body the four functions share: the iteration count is computed, the
\* challenge is read from block.finished_slots[-1][0], the output from the
\* named VDF of block.reward_chain_sub_block.
vdf_of(b, number_of_iterations, prior) ==
    IF b.finished_slots = <<>>
    THEN Raised("IndexError")
    ELSE IF b.reward_chain_sub_block[prior] = <<>>
    THEN Raised("AttributeError")
    ELSE Returned(VDFInfo(challenge_slot_hash(Last(b.finished_slots)[1]),
                          number_of_iterations,
                          b.reward_chain_sub_block[prior][1].output))

get_challenge_chain_icp_vdf(b, ips, required_iters) ==
    vdf_of(b, calculate_infusion_point_iters(ips, required_iters),
           "challenge_chain_ip_vdf")

get_challenge_chain_ip_vdf(b, ips, required_iters) ==
    vdf_of(b, calculate_infusion_challenge_point_iters(ips, required_iters),
           "challenge_chain_icp_vdf")

get_reward_chain_icp_vdf(b, ips, required_iters) ==
    vdf_of(b, calculate_infusion_point_iters(ips, required_iters),
           "reward_chain_ip_vdf")

get_reward_chain_ip_vdf(b, ips, required_iters) ==
    vdf_of(b, calculate_infusion_challenge_point_iters(ips, required_iters),
           "reward_chain_icp_vdf")

\* calculate_iterations_quality: the required iterations of a quality
RequiredIterVals == 1 .. MaxIters

InitVdf ==
    /\ self = InitSelf
    /\ NoCallYet
    /\ IdleSelect
    /\ IdleFoliage
    /\ vdf_block \in {<<b>> : b \in VdfBlocks}
    /\ vdf_ips \in IpsVals
    /\ vdf_required_iters \in RequiredIterVals
    /\ vdf_info = [seg \in Segments |-> <<>>]

\* challenge_chain_icp_vdf = get_challenge_chain_icp_vdf(head, ...)
CallChallengeChainIcpVdf ==
    /\ vdf_info["challenge_chain_icp_vdf"] = <<>>
    /\ vdf_info' =
           [vdf_info EXCEPT !["challenge_chain_icp_vdf"] =
                <<get_challenge_chain_icp_vdf(vdf_block[1], vdf_ips, vdf_required_iters)>>]
    /\ UNCHANGED <<vdf_block, vdf_ips, vdf_required_iters, loop_vars,
                   select_vars, foliage_vars>>

\* challenge_chain_ip_vdf = get_challenge_chain_ip_vdf(head, ...)
CallChallengeChainIpVdf ==
    /\ vdf_info["challenge_chain_ip_vdf"] = <<>>
    /\ vdf_info' =
           [vdf_info EXCEPT !["challenge_chain_ip_vdf"] =
                <<get_challenge_chain_ip_vdf(vdf_block[1], vdf_ips, vdf_required_iters)>>]
    /\ UNCHANGED <<vdf_block, vdf_ips, vdf_required_iters, loop_vars,
                   select_vars, foliage_vars>>

\* get_reward_chain_icp_vdf(head, ...)
CallRewardChainIcpVdf ==
    /\ vdf_info["reward_chain_icp_vdf"] = <<>>
    /\ vdf_info' =
           [vdf_info EXCEPT !["reward_chain_icp_vdf"] =
                <<get_reward_chain_icp_vdf(vdf_block[1], vdf_ips, vdf_required_iters)>>]
    /\ UNCHANGED <<vdf_block, vdf_ips, vdf_required_iters, loop_vars,
                   select_vars, foliage_vars>>

\* get_reward_chain_ip_vdf(head, ...)
CallRewardChainIpVdf ==
    /\ vdf_info["reward_chain_ip_vdf"] = <<>>
    /\ vdf_info' =
           [vdf_info EXCEPT !["reward_chain_ip_vdf"] =
                <<get_reward_chain_ip_vdf(vdf_block[1], vdf_ips, vdf_required_iters)>>]
    /\ UNCHANGED <<vdf_block, vdf_ips, vdf_required_iters, loop_vars,
                   select_vars, foliage_vars>>

NextVdf ==
    \/ CallChallengeChainIcpVdf
    \/ CallChallengeChainIpVdf
    \/ CallRewardChainIcpVdf
    \/ CallRewardChainIpVdf

SpecVdf == InitVdf /\ [][NextVdf]_vars

----------------------------------------------------------------------------
(* create_foliage applied on its own to one set of arguments.  The        *)
(* arguments cover what a caller can pass: height and reward_puzzlehash   *)
(* given or None, with and without transactions and a previous foliage    *)
(* block.                                                                 *)

FoliageHeights == {<<>>} \cup {<<h>> : h \in 1 .. MaxExtend}

RewardPuzzlehashes == {<<>>, <<"reward_puzzlehash">>}

Programs == {<<>>, <<"program">>}

\* a foliage block built by an earlier call
EarlierFoliageBlock ==
    [ prev_block_hash        |-> <<0>>,
      additions_root         |-> [tx_additions |-> FALSE, reward_coins |-> {}],
      transactions_info_hash |-> <<>> ]

FoliageArgs ==
    [ height             : FoliageHeights,
      transactions       : Programs,
      prev_foliage_block : {<<>>, <<EarlierFoliageBlock>>},
      is_block           : BOOLEAN,
      is_transaction     : BOOLEAN,
      reward_puzzlehash  : RewardPuzzlehashes ]

InitFoliage ==
    /\ \E k \in PoolKeys :
         self = [InitSelf EXCEPT !.proof_of_space = [pool_public_key |-> k]]
    /\ NoCallYet
    /\ IdleSelect
    /\ IdleVdf
    /\ foliage_args \in {<<args>> : args \in FoliageArgs}
    /\ foliage_result = <<>>

\* the call with the arguments drawn
foliage_of_args ==
    LET args == foliage_args[1] IN
    create_foliage(self, args.height, args.transactions,
                   args.prev_foliage_block, "reward_block_hash",
                   args.is_block, <<0>>, args.is_transaction,
                   args.reward_puzzlehash)

\* create_foliage returns its tuple
CallCreateFoliage ==
    /\ foliage_args # <<>>
    /\ foliage_result = <<>>
    /\ pool_signature_ok(
           foliage_of_args[1].foliage_sub_block_data.pool_target_signature)
    /\ foliage_result' = <<[raised |-> "none", foliage |-> <<foliage_of_args>>]>>
    /\ UNCHANGED <<foliage_args, loop_vars, select_vars, vdf_vars>>

\* create_foliage: the assertion on the pool target signature fails
CallCreateFoliageFails ==
    /\ foliage_args # <<>>
    /\ foliage_result = <<>>
    /\ ~ pool_signature_ok(
           foliage_of_args[1].foliage_sub_block_data.pool_target_signature)
    /\ foliage_result' = <<[raised |-> "AssertionError", foliage |-> <<>>]>>
    /\ UNCHANGED <<foliage_args, loop_vars, select_vars, vdf_vars>>

NextFoliage ==
    \/ CallCreateFoliage
    \/ CallCreateFoliageFails

SpecFoliage == InitFoliage /\ [][NextFoliage]_vars

----------------------------------------------------------------------------
(* Properties *)

\* the blocks of the chain that create_next_block built
Built(i) == i > 1 /\ block_list[i].height > block_list[i - 1].height

\* the call started from an empty block list
FromGenesis == Len(block_list) >= 2 /\ block_list[1].height = 0

\* C1: the deficit is an integer of 0..5 in every reachable state (never
\* negative); it is 5 right after genesis is created and 5 right after every
\* challenge block is accepted.
DeficitInRange ==
    /\ self.deficit \in 0 .. 5
    /\ (pc = "loop" /\ FromGenesis /\ Len(block_list) = 2)
           => self.deficit = 5
    /\ (pc \in {"loop", "done"} /\ Len(block_list) > 0
           /\ Last(block_list).challenge_chain_ip_proof # <<>>)
           => self.deficit = 5

\* C1 witness: from genesis, a challenge block built by create_next_block has
\* just been accepted and the deficit is back at 5.
DeficitResetReached ==
    /\ pc = "loop"
    /\ FromGenesis
    /\ Len(block_list) > 2
    /\ Last(block_list).challenge_chain_ip_proof # <<>>
    /\ self.deficit = 5

TotalItersStrictlyIncreasing ==
    FromGenesis =>
        \A i \in 2 .. Len(block_list) :
            Built(i) =>
                block_list[i].total_iters > block_list[i - 1].total_iters

\* C4: in a chain get_consecutive_blocks produced from the empty list, weight
\* is non-decreasing, strictly greater than the predecessor's exactly at
\* challenge blocks and equal to it at every other block.
WeightIncreasesExactlyAtChallengeBlocks ==
    FromGenesis =>
        \A i \in 2 .. Len(block_list) :
            /\ block_list[i].weight >= block_list[i - 1].weight
            /\ Built(i) =>
                 IF block_list[i].challenge_chain_ip_proof # <<>>
                 THEN block_list[i].weight > block_list[i - 1].weight
                 ELSE block_list[i].weight = block_list[i - 1].weight

\* C4 amended: weight is non-decreasing, and every block create_next_block
\* builds, challenge block or continuation, weighs its predecessor's weight
\* plus the difficulty in force, which is strictly more.
WeightAddsDifficulty ==
    /\ \A i \in 2 .. Len(block_list) :
         /\ block_list[i].weight >= block_list[i - 1].weight
         /\ Built(i) => block_list[i].weight > block_list[i - 1].weight
    /\ pc = "accept"
           => block[1].weight = Last(block_list).weight + difficulty

\* C4 witness: a continuation block (no challenge-chain proof) heavier than
\* its predecessor is on the chain.
ContinuationGainsWeight ==
    \E i \in 2 .. Len(block_list) :
        /\ Built(i)
        /\ ~ block_list[i].challenge_chain_ip_proof # <<>>
        /\ block_list[i].weight = block_list[i - 1].weight + difficulty

\* the entries of block_list marked transaction blocks
TxIndices == {i \in 1 .. Len(block_list) : block_list[i].is_transaction_block}

\* the total iterations recorded for the previous transaction block
PrevTxTotalIters ==
    block_list[CHOOSE i \in TxIndices : \A j \in TxIndices : j <= i].total_iters

\* C5: a block built by create_next_block is marked a transaction block iff
\* its infusion-challenge-point total iterations (less slot_iters under
\* overflow) exceed the total iterations recorded for the previous
\* transaction block.
TxBlockIffBeyondPrevTxBlock ==
    (pc = "accept" /\ TxIndices # {})
        => (block[1].is_transaction_block
                <=> icp_total_of_next > PrevTxTotalIters)

\* the entries of block_list built in slot s
SlotBlocks(s) == {i \in 1 .. Len(block_list) : slot_of[i] = s}

\* C6: in a chain get_consecutive_blocks produced from the empty list, among
\* the blocks assembled between two consecutive slot boundaries exactly one is
\* marked a transaction block (checked once the next slot has a block), and no
\* two blocks of one slot are both marked.
OneTxBlockPerSlot ==
    FromGenesis =>
        \A s \in 1 .. cur_slot :
            /\ Cardinality(SlotBlocks(s) \cap TxIndices) <= 1
            /\ (\E i \in 1 .. Len(block_list) : slot_of[i] > s)
                   => Cardinality(SlotBlocks(s) \cap TxIndices) = 1

\* the finished-slot tuples carried by the blocks of the chain assembled at
\* height h or later
CarriedByBlocksFrom(h) ==
    UNION {{block_list[i].finished_slots[k] :
                k \in 1 .. Len(block_list[i].finished_slots)} :
           i \in {j \in 1 .. Len(block_list) : block_list[j].height >= h}}

\* C7: a tuple leaves the finished-slot buffer only after the block assembled
\* in the same construction step, or a later block, carries it in its
\* finished_slots.
NeverDropsFinishedSlot ==
    [][\A k \in 1 .. Len(self.finished_slots) :
           k > Len(self'.finished_slots)
               => self.finished_slots[k] \in CarriedByBlocksFrom(next_height)']_vars

EpochBoundary(h) == h > 0 /\ h % EPOCH_BLOCKS = 0

\* next_height is a sub-epoch boundary, SUB_EPOCH_BLOCKS * (k + 1)
SubEpochBoundary(h) == h > 0 /\ h % SUB_EPOCH_BLOCKS = 0

\* C9: when construction reaches a height EPOCH_BLOCKS * (m + 1), the
\* difficulty and speed recalculations are both invoked.
EpochBoundaryRecalculates ==
    (pc \in {"track_deficit", "create", "accept"} /\ EpochBoundary(next_height))
        => calls.difficulty > 0 /\ calls.ips > 0

\* C10: a step whose height is not an epoch boundary (a sub-epoch boundary
\* included) leaves difficulty and ips as they are and invokes neither
\* get_next_difficulty nor get_next_ips.
NoRecalculationOffEpochBoundary ==
    [][(pc \notin {"idle"} /\ ~ EpochBoundary(next_height))
           => /\ difficulty' = difficulty
              /\ self'.ips = self.ips
              /\ calls' = calls]_vars

\* C10 witness: the epoch check of a step at a sub-epoch boundary that is no
\* epoch boundary is over, with nothing recalculated.
SubEpochOnlyStepReached ==
    /\ pc = "track_deficit"
    /\ SubEpochBoundary(next_height)
    /\ ~ EpochBoundary(next_height)
    /\ calls = [difficulty |-> 0, ips |-> 0]
    /\ difficulty = DIFFICULTY_STARTING

\* C13: a block whose total_iters is not above the total_iters the chain has
\* reached, or whose weight is below the weight it has reached, is rejected
\* with an error: it is not appended and the tracker is left as it was.
InvalidExtensionRejected ==
    [][(/\ pc = "accept"
        /\ FromGenesis
        /\ \/ block[1].total_iters <= Last(block_list).total_iters
           \/ block[1].weight < Last(block_list).weight)
           => /\ block_list' = block_list
              /\ self' = self
              /\ error' # "none"]_vars

\* the positions of a construction step before create_next_block has
\* assembled the block
BeforeAssembly ==
    {"loop", "check_slot", "select_proof", "clear_slots", "check_epoch",
     "track_deficit"}

\* C14: the tracker state (the fields of the tracker, the difficulty, the
\* sub-block map) is not mutated before the block of the step has been
\* assembled, so that a step that fails or is abandoned leaves it as the
\* last assembled block left it.
TrackerMutatedOnlyOnCompletion ==
    [][(pc \in BeforeAssembly)
           => (/\ self' = self
               /\ difficulty' = difficulty
               /\ sub_blocks' = sub_blocks)]_vars

\* the entries of block_list the call found or created before its loop
PriorLen == IF FromGenesis THEN 2 ELSE 1

\* C15: once the construction of a block of the batch has failed the call is
\* over, nothing more is constructed, and the chain is the chain before the
\* batch followed by the blocks of the heights assembled before the failure,
\* one each, in order.
BatchAbortsAtFirstFailure ==
    error # "none"
        => /\ pc = "failed"
           /\ ~ ENABLED Next
           /\ \/ block_list = <<>>
              \/ /\ Len(block_list)
                       = PriorLen + next_height
                                  - (block_list[PriorLen].height + 1)
                 /\ \A j \in PriorLen + 1 .. Len(block_list) :
                        block_list[j].height
                            = block_list[PriorLen].height + j - PriorLen

\* C15 witness: the call from an empty list failed on a later block of the
\* batch, after blocks of the batch had been appended.
BatchAbortedMidway ==
    /\ error # "none"
    /\ FromGenesis
    /\ Len(block_list) > 3
    /\ next_height < end_height - 1

\* C16: a block built by create_next_block always has a FoliageSubBlock, and
\* has a FoliageBlock iff it is a transaction block.
FoliageBlockIffTransactionBlock ==
    pc = "accept"
        => /\ block[1].foliage_sub_block # <<>>
           /\ block[1].foliage_block # <<>>
                  <=> block[1].is_transaction_block

\* C17: the transactions-info attached to a block built by create_next_block
\* is present iff the block is a transaction block, and when present it is a
\* TransactionsInfo.
TransactionsInfoIffTransactionBlock ==
    pc = "accept"
        => /\ block[1].transactions_info # <<>>
                  <=> block[1].is_transaction_block
           /\ block[1].transactions_info # <<>>
                  => block[1].transactions_info[1].type = "TransactionsInfo"

\* C18: when create_foliage is reached with a proof of space whose pool
\* public key matches no key of the keychain, the step fails: no foliage is
\* returned, no block is built or appended, and nothing runs after the
\* failure (no retry).
MissingPoolSignatureAborts ==
    [][/\ (/\ pc = "create"
           /\ uint128_ok(icp_total_of_next)
           /\ self.proof_of_space.pool_public_key \notin self.all_sks)
              => /\ pc' = "failed"
                 /\ error' # "none"
                 /\ block' = block
                 /\ block_list' = block_list
                 /\ self'.prev_foliage_block = self.prev_foliage_block
       /\ pc = "failed" => UNCHANGED vars]_vars

\* C18 witness: a call from an empty list ended on the failed assertion of
\* create_foliage, after it had appended blocks signed with a known key.
PoolSignatureMissing ==
    /\ pc = "failed"
    /\ error = "AssertionError: pool_target_signature is not None"
    /\ FromGenesis
    /\ Len(block_list) > 2
    /\ self.proof_of_space.pool_public_key \notin self.all_sks

\* C11: get_prams_from_plots keeps the first eligible attempt: once an
\* attempt has passed the can_create_proof filter and returned a quality,
\* the selection is the plot and quality of that attempt, no later eligible
\* attempt replaces it, and they are what the call returns.
FirstEligibleRetained ==
    /\ selected_plot_info = first_eligible
    /\ first_eligible # <<>>
           => selected_quality =
                  <<get_qualities_for_challenge(plots, first_eligible[1])[1]>>
    /\ prams # <<>>
           => /\ prams[1].plot_info = first_eligible
              /\ prams[1].quality = selected_quality

\* C12: when the attempts are over and none has yielded a quality, proof
\* selection returns no tuple and can only raise; once it has raised, the
\* exception has left get_consecutive_blocks and nothing runs again: no
\* further attempt, no second selection.
NoProofRaises ==
    (attempt = 3 * Len(plots) /\ first_eligible = <<>>)
        => /\ prams = <<>>
           /\ error = "none"
                  => ENABLED SelectionRaises /\ ~ ENABLED ReturnPrams
           /\ error # "none"
                  => pc = "failed" /\ ~ ENABLED NextSelect

\* C12 witness: with plots to attempt, every attempt was made, none yielded
\* a quality and the selection has raised.
NoProofRaised ==
    /\ Len(plots) = MaxPlots
    /\ attempt = 3 * Len(plots)
    /\ \E pn \in 1 .. Len(plots) : plots[pn].ccp
    /\ first_eligible = <<>>
    /\ error # "none"
    /\ pc = "failed"

\* C19: each VDF segment function takes as challenge the hash of the
\* challenge slot of the block's most recent finished slot, and the genesis
\* challenge constant when the block has no finished slot; it does not fail
\* on an empty finished-slot sequence.
VdfChallengeFromLastSlotOrGenesis ==
    \A seg \in DOMAIN vdf_info :
        vdf_info[seg] # <<>>
            => LET r == vdf_info[seg][1]
                   fs == vdf_block[1].finished_slots
               IN  IF fs = <<>>
                   THEN /\ r.raised # "IndexError"
                        /\ r.info # <<>>
                               => r.info[1].challenge_hash
                                      \in {FIRST_CC_CHALLENGE,
                                           FIRST_RC_CHALLENGE}
                   ELSE r.info # <<>>
                            => r.info[1].challenge_hash
                                   = challenge_slot_hash(Last(fs)[1])

\* the transform that goes with a segment type
TransformOf(seg) ==
    IF seg \in {"challenge_chain_icp_vdf", "reward_chain_icp_vdf"}
    THEN "infusion_challenge_point" ELSE "infusion_point"

\* C20: the iteration count of a VDF segment is the transform of its own
\* type applied to the required iterations, and its prior output is the
\* output of the segment of the same type in the block.
VdfItersMatchSegmentType ==
    \A seg \in DOMAIN vdf_info :
        (vdf_info[seg] # <<>> /\ vdf_info[seg][1].info # <<>>)
            => LET info == vdf_info[seg][1].info[1] IN
               /\ info.number_of_iterations.transform = TransformOf(seg)
               /\ info.number_of_iterations.required_iters
                      = vdf_required_iters
               /\ info.output
                      = vdf_block[1].reward_chain_sub_block[seg][1].output

\* C21: with an empty block list, the weight of the genesis block's reward
\* chain sub-block is DIFFICULTY_STARTING, and once the genesis block is
\* accepted the tracker's deficit is 5 and its ips is IPS_STARTING.
GenesisWeightAndTracker ==
    FromGenesis
        => /\ block_list[1].weight = DIFFICULTY_STARTING
           /\ (pc = "loop" /\ next_height = 1)
                  => /\ self.deficit = DEFICIT_START
                     /\ self.ips = IPS_STARTING

\* C21 witness: the genesis block has just been accepted.
GenesisAccepted ==
    /\ pc = "loop"
    /\ FromGenesis
    /\ next_height = 1
    /\ block_list[1].weight = DIFFICULTY_STARTING
    /\ self.deficit = DEFICIT_START
    /\ self.ips = IPS_STARTING

\* the reward coins in the additions root of entry i of the chain
RewardCoins(i) == block_list[i].foliage_block[1].additions_root.reward_coins

\* C22: with no transactions, the reward coins and the pool target of every
\* block built are keyed by the block's height, so from one built block to
\* the next the coins are different coins and the additions root changes.
RewardCoinsKeyedByHeight ==
    \A i \in 1 .. Len(block_list) :
        (FromGenesis /\ Built(i))
            => /\ \A coin \in RewardCoins(i) :
                      coin.parent.height = <<block_list[i].height>>
               /\ block_list[i].foliage_sub_block[1].foliage_sub_block_data
                      .pool_target.max_height = <<block_list[i].height>>
               /\ Built(i - 1)
                      => /\ RewardCoins(i) \cap RewardCoins(i - 1) = {}
                         /\ block_list[i].foliage_block[1].additions_root
                                # block_list[i - 1].foliage_block[1]
                                                       .additions_root

\* d2 keeps every entry of d1
Keeps(d1, d2) ==
    \A k \in DOMAIN d1 : k \in DOMAIN d2 /\ d2[k] = d1[k]

\* C23: the height-to-hash map and the hash-to-sub-block-record map are
\* append-only: no step, a challenge-block step included, removes or
\* replaces an entry.
MapsAppendOnly ==
    [][/\ Keeps(self.height_to_hash, self'.height_to_hash)
       /\ Keeps(sub_blocks, sub_blocks')]_vars

\* C24: for every block built after genesis, the previous-foliage hash in
\* its foliage sub-block and foliage sub-block data is defined and is the
\* hash of the foliage block of the entry just before it.
PrevFoliageHashOfPrecedingBlock ==
    \A i \in 1 .. Len(block_list) :
        (FromGenesis /\ Built(i))
            => LET fsb == block_list[i].foliage_sub_block[1] IN
               /\ fsb.prev_foliage_block_hash # <<>>
               /\ fsb.prev_foliage_block_hash
                      = foliage_block_hash(block_list[i - 1].foliage_block)
               /\ fsb.foliage_sub_block_data.prev_foliage_block_hash
                      = fsb.prev_foliage_block_hash

\* C25: a call with an empty list and num_blocks = N returns exactly N + 1
\* pairwise distinct entries, one genesis block and N built blocks.
EachBlockAppendedOnce ==
    (pc = "done" /\ FromGenesis)
        => /\ Len(block_list) = MaxBlocks + 1
           /\ \A i, j \in 1 .. Len(block_list) :
                  i # j => block_list[i] # block_list[j]

\* C26: create_next_block, create_foliage included, changes no field of the
\* tracker other than prev_foliage_block.
CreateNextBlockFrame ==
    [][(pc = "create")
          => self' = [self EXCEPT
                        !.prev_foliage_block = self'.prev_foliage_block]]_vars

\* C26 witness: create_next_block has returned a block and left its foliage
\* block in prev_foliage_block, the deficit being what TrackDeficit made it.
CreateNextBlockReturned ==
    /\ pc = "accept"
    /\ self.prev_foliage_block = block[1].foliage_block
    /\ self.prev_foliage_block # <<>>
    /\ self.deficit < DEFICIT_START - 1
    /\ block[1].height > 1

\* the VDF proofs carried by a block
ProofsOf(b) ==
    {b[f][1] : f \in {g \in {"challenge_chain_icp_proof",
                             "challenge_chain_ip_proof",
                             "reward_chain_icp_proof",
                             "reward_chain_ip_proof"} : b[g] # <<>>}}

\* C27: every invocation of the VDF oracle for a block passes the block's
\* iteration count as the number of iterations and DISCRIMINANT_SIZE_BITS as
\* the discriminant size.
VdfProofArgumentsInOrder ==
    \A i \in 1 .. Len(block_list) :
        (FromGenesis /\ (i = 1 \/ Built(i)))
            => \A proof \in ProofsOf(block_list[i]) :
                   /\ proof.witness.num_iterations = block_list[i].total_iters
                   /\ proof.witness.discriminant_size_bits
                          = DISCRIMINANT_SIZE_BITS

\* C28: in what create_foliage returns, with reward_puzzlehash given or
\* None, the pool coin pays to the puzzle hash of the pool target and the
\* farmer coin to the farmer reward puzzle hash of the foliage.
RewardCoinsPayToTargets ==
    (foliage_result # <<>> /\ foliage_result[1].foliage # <<>>)
        => LET foliage == foliage_result[1].foliage[1]
               data == foliage[1].foliage_sub_block_data
           IN  \A coin \in foliage[2].additions_root.reward_coins :
                   IF coin.parent.kind = "pool"
                   THEN coin.puzzle_hash = data.pool_target.puzzle_hash
                   ELSE coin.puzzle_hash = data.farmer_reward_puzzle_hash

\* C29: the value is_transaction_block converts to uint128 is non-negative
\* for every block create_next_block is asked to build.
IcpTotalItersNonNegative ==
    (pc = "create" /\ FromGenesis) => uint128_ok(icp_total_of_next)

====
